---- MODULE Spec2Model ----
(***************************************************************************)
(* Model of snb_dit.c: the direct-I/O pattern write / read / verify tool.  *)
(*                                                                         *)
(* One run of main() is a sequence of steps over the program's locals      *)
(* (pc is the position in main); the target file outlives a run, and the   *)
(* environment may invoke the program again on the file a run left.        *)
(*                                                                         *)
(* Bytes are 0..255.  A uint64_t is a tuple of 8 bytes, least significant  *)
(* byte first, which is also its memory layout on the little-endian hosts  *)
(* the tool is built for.  C buffers are 0-indexed; the sequences that     *)
(* model them are 1-indexed, so buf[i] in C is buf[i + 1] here.            *)
(***************************************************************************)
EXTENDS Integers, Sequences, FiniteSets, TLC

(***************************************************************************)
(* Program constants and model bounds                                      *)
(***************************************************************************)
ALIGNMENT == 512

\* CHUNK_SIZE is 4 MiB = 8192 * ALIGNMENT in the source.  The model keeps
\* it a multiple of ALIGNMENT but bounds the number of alignment units.
ChunkUnits == 3

CHUNK_SIZE == ChunkUnits * ALIGNMENT

\* sizeof(HexPattern): 1 + 2 + 4 + 8, packed
PAT_SIZE == 15

\* the verify loop stops at this many mismatches
MISMATCH_CAP == 10

\* how many times the environment invokes the program on the same file
MaxRuns == 2

\* how many I/O calls of one run may transfer fewer bytes than requested
\* (0 < n < chunk)
MaxShort == 1

\* the byte counts a short pwrite / pread may report
ShortLens == {1, ALIGNMENT}

\* values of argv[2] after strtoull(.., 10): aligned sizes below, at and
\* above the chunk capacity, and one that is not a multiple of ALIGNMENT
AlignedSizes == {0, 2 * ALIGNMENT, CHUNK_SIZE, CHUNK_SIZE + ALIGNMENT}

UnalignedSizes == {1000, CHUNK_SIZE + 1}

Modes == {"write", "read", "readwrite", "verify"}

\* values of argv[4], as tuples of characters
GoodPatterns ==
    { <<"0">>,
      <<"0","x","D","E","A","D","B","E","E","F">>,
      <<"0","1","0","0","0","0","0","0","0","0","0","0","0","0","0","0">> }

BadPatterns == { <<"0","x","1","2","g">> }

\* texts that are no 64-bit hex number and that strtoull takes all the
\* same: 17 significant digits, and a sign
EdgePatterns ==
    { <<"0","x","1","0","0","0","0","0","0","0","0","0","0","0","0","0","0","0","0">>,
      <<"-","1">> }

\* The command lines the environment may give: every mode with every good
\* pattern and every size, every mode with a bad pattern, a write with each
\* edge pattern, and one with an argument missing.
Invocations ==
    [argc : {5}, size : AlignedSizes \cup UnalignedSizes, mode : Modes,
     hex_str : GoodPatterns]
    \cup [argc : {5}, size : {2 * ALIGNMENT}, mode : Modes, hex_str : BadPatterns]
    \cup [argc : {5}, size : {2 * ALIGNMENT}, mode : {"write"}, hex_str : EdgePatterns]
    \cup [argc : {4}, size : {2 * ALIGNMENT}, mode : {"write"}, hex_str : GoodPatterns]

\* content of memory that was allocated and never written
Indeterminate == "?"

Min(a, b) == IF a < b THEN a ELSE b

(***************************************************************************)
(* parse_hex and strtoull                                                  *)
(***************************************************************************)
LowerHex == <<"0","1","2","3","4","5","6","7","8","9","a","b","c","d","e","f">>

UpperHex == <<"0","1","2","3","4","5","6","7","8","9","A","B","C","D","E","F">>

IsHexDigit(c) == \E k \in 1..16 : c = LowerHex[k] \/ c = UpperHex[k]

HexDigitVal(c) == (CHOOSE k \in 1..16 : c = LowerHex[k] \/ c = UpperHex[k]) - 1

IsSpace(c) == c \in {" ", "\t", "\n"}

\* s[p] as C sees it: the terminating NUL past the last character
CharAt(s, p) == IF p <= Len(s) THEN s[p] ELSE "NUL"

HasHexPrefix(s, p) ==
    /\ CharAt(s, p) = "0"
    /\ CharAt(s, p + 1) \in {"x", "X"}

\* the first position from p on whose character is not white space
SkipSpaces(s, p) ==
    CHOOSE q \in p..(Len(s) + 1) :
        /\ ~IsSpace(CharAt(s, q))
        /\ \A r \in p..(q - 1) : IsSpace(CharAt(s, r))

\* the first position from p on whose character is not a hex digit
DigitsEnd(s, p) ==
    CHOOSE q \in p..(Len(s) + 1) :
        /\ ~IsHexDigit(CharAt(s, q))
        /\ \A r \in p..(q - 1) : IsHexDigit(CharAt(s, r))

\* the digits without their leading zeros
StripZeros(ns) ==
    LET lead == Cardinality({k \in 1..Len(ns) : \A j \in 1..k : ns[j] = 0})
    IN  SubSeq(ns, lead + 1, Len(ns))

\* the uint64_t with the given hex digits (most significant first, at most
\* 16 of them), as 8 bytes, least significant first
U64OfNibbles(ns) ==
    LET n == Len(ns)
        nib(k) == IF k <= n THEN ns[n + 1 - k] ELSE 0   \* k-th nibble from the right
        byte(b) == nib(2 * b - 1) + 16 * nib(2 * b)
    IN  <<byte(1), byte(2), byte(3), byte(4), byte(5), byte(6), byte(7), byte(8)>>

ULLONG_MAX == <<255, 255, 255, 255, 255, 255, 255, 255>>

\* two's complement negation of a uint64_t: the bytes below the lowest
\* nonzero byte stay 0, that byte is negated, the bytes above are inverted
U64Neg(v) ==
    LET byte(b) == IF \A j \in 1..(b - 1) : v[j] = 0
                   THEN (256 - v[b]) % 256
                   ELSE 255 - v[b]
    IN  <<byte(1), byte(2), byte(3), byte(4), byte(5), byte(6), byte(7), byte(8)>>

\* strtoull skips white space, takes one sign, and takes a 0x / 0X prefix
\* when a hex digit follows it: the position where the digits start
DigitsStart(s) ==
    LET p0 == SkipSpaces(s, 1)
        p1 == IF CharAt(s, p0) \in {"-", "+"} THEN p0 + 1 ELSE p0
    IN  IF HasHexPrefix(s, p1) /\ IsHexDigit(CharAt(s, p1 + 2)) THEN p1 + 2 ELSE p1

IsNegative(s) == CharAt(s, SkipSpaces(s, 1)) = "-"

\* <<p2, e, nibs>>: the digits are s[p2 .. e - 1], and nibs are their values
\* without leading zeros
ScanDigits(s) ==
    { <<q[1], q[2], StripZeros([k \in 1..(q[2] - q[1]) |-> HexDigitVal(s[q[1] + k - 1])])>> :
        q \in { <<p2, DigitsEnd(s, p2)>> : p2 \in {DigitsStart(s)} } }

\* strtoull(s, &endptr, 16): [value, endptr], endptr a 1-based position in
\* s.  No digits: value 0 and endptr = s.  More than 16 significant digits:
\* ULLONG_MAX.  A minus sign negates the value as an unsigned number.
strtoull16(s) ==
    CHOOSE r \in
        { IF t[2] = t[1]
          THEN [value |-> U64OfNibbles(<<>>), endptr |-> 1]
          ELSE [value  |-> IF Len(t[3]) > 16 THEN ULLONG_MAX
                           ELSE IF IsNegative(s) THEN U64Neg(U64OfNibbles(t[3]))
                           ELSE U64OfNibbles(t[3]),
                endptr |-> t[2]]
          : t \in ScanDigits(s) } : TRUE

\* parse_hex: [ok, value]; ok = FALSE is the exit(EXIT_FAILURE) path
parse_hex(hex_str) ==
    LET s == IF HasHexPrefix(hex_str, 1)
             THEN SubSeq(hex_str, 3, Len(hex_str)) ELSE hex_str
        r == strtoull16(s)
    IN  [ok |-> CharAt(s, r.endptr) = "NUL", value |-> r.value]

(***************************************************************************)
(* HexPattern and fill_buffer                                              *)
(***************************************************************************)
\* the four views of the seed, each as its bytes, least significant first
MakePattern(hex_val) ==
    [pattern8  |-> SubSeq(hex_val, 1, 1),
     pattern16 |-> SubSeq(hex_val, 1, 2),
     pattern32 |-> SubSeq(hex_val, 1, 4),
     pattern64 |-> hex_val]

\* the 15 bytes of the packed struct, in field order
Packed(pat) == pat.pattern8 \o pat.pattern16 \o pat.pattern32 \o pat.pattern64

\* variant: the last, partial copy of the struct is cut off at size instead
\* of being replaced by pattern8
fill_buffer_cut(buf, size, pat) ==
    LET bytes == Packed(pat)
    IN  [k \in 1..Len(buf) |->
            IF k - 1 < size THEN bytes[((k - 1) % PAT_SIZE) + 1] ELSE buf[k]]

\* fill_buffer(buf, size, pat): the buffer after the call.  The first loop
\* copies the struct while offset + pat_size <= size, so it ends at the
\* largest multiple of pat_size that is <= size; the second loop stores
\* pattern8 from there to size.  Bytes at size and beyond are not written.
fill_buffer(buf, size, pat) ==
    LET pat_size == PAT_SIZE
        tiled    == size - (size % pat_size)
        bytes    == Packed(pat)
    IN  [k \in 1..Len(buf) |->
            IF k - 1 < tiled THEN bytes[((k - 1) % pat_size) + 1]
            ELSE IF k - 1 < size THEN pat.pattern8[1]
            ELSE buf[k]]

(***************************************************************************)
(* The verify loop                                                         *)
(***************************************************************************)
\* variant: the loop steps by the pattern size instead of by one byte
Diffs_stride(expected, actual, n) ==
    {i \in 0..(n - 1) : i % PAT_SIZE = 0 /\ expected[i + 1] # actual[i + 1]}

\* the indices i in [0, n) the loop of line 219 finds different
Diffs(expected, actual, n) == {i \in 0..(n - 1) : expected[i + 1] # actual[i + 1]}

\* variant: the loop counts every differing byte and only then tests the cap
VerifyChunk_nocap(expected, actual, n, count) ==
    LET d == Cardinality({i \in 0..(n - 1) : expected[i + 1] # actual[i + 1]})
    IN  [mismatch |-> count + d, stop |-> count + d >= MISMATCH_CAP, compared |-> n]

\* The loop of lines 219-233 over one chunk of n bytes, entered with the
\* running count mismatch: each differing byte adds one, and the loop is
\* left by goto verify_done as soon as the count reaches the cap, at the
\* index `last` of the differing byte that made it so.  compared is the
\* number of indices the loop has looked at.
VerifyChunk(expected, actual, n, count) ==
    LET D    == Diffs(expected, actual, n)
        d    == Cardinality(D)
        last == CHOOSE i \in D : Cardinality({j \in D : j <= i}) = MISMATCH_CAP - count
    IN  IF count + d >= MISMATCH_CAP
        THEN [mismatch |-> MISMATCH_CAP, stop |-> TRUE, compared |-> last + 1]
        ELSE [mismatch |-> count + d, stop |-> FALSE, compared |-> n]

(***************************************************************************)
(* State                                                                   *)
(***************************************************************************)
VARIABLES
    run,            \* which invocation of the program this is (1..MaxRuns)
    argc, size, mode, hex_str,   \* argc, argv[2] as parsed, argv[3], argv[4]
    pc,             \* position in main
    exit_status,    \* -1 while running, then EXIT_SUCCESS (0) or EXIT_FAILURE (1)
    err,            \* the diagnostic written by perror / fprintf(stderr), or "none"
    pat,            \* HexPattern pat
    chunk_buf,      \* the write / expected-value buffer (<<>>: no storage)
    read_buf,       \* the read buffer (<<>>: no storage)
    fd,             \* result of the last open(): -1 failed or none, 3 a descriptor
    res,            \* per resource: "none", "live", "released" or "bad"
    chunk,          \* size_t chunk of the current loop iteration
    total_written, written,
    total_read, bytes_read, mismatch,
    file,           \* the target file: [exists, data]
    shorts,         \* I/O calls of this run that transferred 0 < n < chunk bytes
    written_by,     \* the write phase that last completed on the file, if any
    progress,       \* the last print_progress call of the run: [op, done], or NoProgress
    compared        \* how many times the run executed the comparison of line 220

vars == <<run, argc, size, mode, hex_str, pc, exit_status, err, pat, chunk_buf,
          read_buf, fd, res, chunk, total_written, written, total_read,
          bytes_read, mismatch, file, shorts, written_by, progress, compared>>

args == <<argc, size, mode, hex_str>>

wlocals == <<total_written, written>>

rlocals == <<total_read, bytes_read, mismatch>>

Resources == {"chunk_buf", "read_buf", "wfd", "rfd"}

NoPattern == [pattern8 |-> <<>>, pattern16 |-> <<>>, pattern32 |-> <<>>, pattern64 |-> <<>>]

NoWrite == [done |-> FALSE, size |-> 0, hex_val |-> <<>>, short |-> FALSE]

NoProgress == [op |-> "none", done |-> 0]

\* what the run has put out and compared so far
output == <<progress, compared>>

\* posix_memalign / open acquire a resource, free / close release it; a
\* release of something not live, or a second acquisition, is "bad"
Acquire(rs, r) == [rs EXCEPT ![r] = IF @ = "none" THEN "live" ELSE "bad"]

Release(rs, r) == [rs EXCEPT ![r] = IF @ = "live" THEN "released" ELSE "bad"]

\* the locals of main before it runs
FreshLocals ==
    /\ pc = "start"
    /\ exit_status = -1
    /\ err = "none"
    /\ pat = NoPattern
    /\ chunk_buf = <<>>
    /\ read_buf = <<>>
    /\ fd = -1
    /\ res = [r \in Resources |-> "none"]
    /\ chunk = 0
    /\ total_written = 0
    /\ written = 0
    /\ total_read = 0
    /\ bytes_read = 0
    /\ mismatch = 0
    /\ shorts = 0
    /\ progress = NoProgress
    /\ compared = 0

Init ==
    /\ run = 1
    /\ \E inv \in Invocations :
        /\ argc = inv.argc
        /\ size = inv.size
        /\ mode = inv.mode
        /\ hex_str = inv.hex_str
    /\ file = [exists |-> FALSE, data |-> <<>>]
    /\ written_by = NoWrite
    /\ FreshLocals

\* return st / exit(st) from main
Exit(st) ==
    /\ pc' = "exit"
    /\ exit_status' = st

(***************************************************************************)
(* main, lines 95-146                                                      *)
(***************************************************************************)
\* variant: the size check is missing
SizeAligned_any(sz) == TRUE

\* variant: the check only asks for at least one alignment unit
SizeAligned_min(sz) == sz >= ALIGNMENT

\* line 113: the size is a multiple of ALIGNMENT
SizeAligned(sz) == sz % ALIGNMENT = 0

\* lines 96-123: argument count, parse_hex, size check, HexPattern
Startup ==
    /\ pc = "start"
    /\ \E parsed \in {parse_hex(hex_str)} :
          IF argc # 5
          THEN /\ Exit(1)
               /\ err' = "usage"
               /\ pat' = pat
          ELSE IF ~parsed.ok
          THEN /\ Exit(1)
               /\ err' = "Invalid hex pattern"
               /\ pat' = pat
          ELSE IF ~SizeAligned(size)
          THEN /\ Exit(1)
               /\ err' = "Size must be a multiple"
               /\ pat' = pat
          ELSE /\ pc' = "alloc"
               /\ pat' = MakePattern(parsed.value)
               /\ UNCHANGED <<exit_status, err>>
    /\ UNCHANGED <<run, args, chunk_buf, read_buf, fd, res, chunk, wlocals,
                   rlocals, file, shorts, written_by, output>>

\* lines 138-146: the chunk buffer, pre-filled once for its whole capacity
AllocChunk ==
    /\ pc = "alloc"
    /\ \/ /\ Exit(1)
          /\ err' = "posix_memalign"
          /\ UNCHANGED <<chunk_buf, res>>
       \/ /\ chunk_buf' = fill_buffer([k \in 1..CHUNK_SIZE |-> Indeterminate],
                                      CHUNK_SIZE, pat)
          /\ res' = Acquire(res, "chunk_buf")
          /\ pc' = "write"
          /\ UNCHANGED <<exit_status, err>>
    /\ UNCHANGED <<run, args, pat, read_buf, fd, chunk, wlocals, rlocals, file,
                   shorts, written_by, output>>

(***************************************************************************)
(* The target file and the I/O calls                                       *)
(***************************************************************************)
\* file content after pwrite stored the bytes at offset off
FileWrite(data, off, bytes) ==
    LET end == IF off + Len(bytes) > Len(data) THEN off + Len(bytes) ELSE Len(data)
    IN  [k \in 1..end |->
            IF k > off /\ k <= off + Len(bytes) THEN bytes[k - off]
            ELSE IF k <= Len(data) THEN data[k]
            ELSE 0]

\* the byte counts a call asked for n bytes may report besides n itself:
\* a short transfer, as long as the run has short transfers left
ShortResults(n) ==
    IF shorts < MaxShort THEN {k \in ShortLens : k < n} ELSE {}

\* the byte counts pwrite may report for a request of n > 0 bytes
PwriteResults(n) == {0, n} \cup ShortResults(n)

\* the byte counts pread may report for a request of n > 0 bytes at offset
\* off: 0 exactly at or past the end of the file
PreadResults(data, off, n) ==
    IF off >= Len(data) THEN {0}
    ELSE LET avail == Min(n, Len(data) - off)
         IN  {avail} \cup ShortResults(avail)

\* variant: every chunk is a whole buffer, also the last one
ChunkLen_whole(total, sz) == CHUNK_SIZE

\* lines 162-163 and 204-205: the remaining size if less than CHUNK_SIZE
ChunkLen(total, sz) == IF sz - total < CHUNK_SIZE THEN sz - total ELSE CHUNK_SIZE

(***************************************************************************)
(* main, lines 148-179: the write phase                                    *)
(***************************************************************************)
\* lines 151-155: open failed
WriteOpenFailed ==
    /\ fd' = -1
    /\ err' = "open (write)"
    /\ res' = Release(res, "chunk_buf")
    /\ chunk_buf' = <<>>
    /\ Exit(1)

\* variant: a failed pwrite is reported and the loop tries again
WriteFailed_retry ==
    /\ written' = -1
    /\ err' = "pwrite"
    /\ pc' = "w_loop"
    /\ UNCHANGED <<res, chunk_buf, exit_status>>

\* lines 165-169: pwrite reported an error
WriteFailed ==
    /\ written' = -1
    /\ err' = "pwrite"
    /\ res' = Release(Release(res, "wfd"), "chunk_buf")
    /\ chunk_buf' = <<>>
    /\ Exit(1)

\* variant: every mode but "read" takes the write phase
WriteOpen_default ==
    /\ pc = "write"
    /\ IF mode # "read"
       THEN \/ /\ WriteOpenFailed
               /\ UNCHANGED <<file, written_by>>
            \/ /\ fd' = 3
               /\ res' = Acquire(res, "wfd")
               /\ file' = [exists |-> TRUE, data |-> <<>>]
               /\ written_by' = NoWrite
               /\ pc' = "w_loop"
               /\ UNCHANGED <<exit_status, err, chunk_buf>>
       ELSE /\ pc' = "read"
            /\ UNCHANGED <<exit_status, err, chunk_buf, fd, res, file, written_by>>
    /\ UNCHANGED <<run, args, pat, read_buf, chunk, wlocals, rlocals, shorts, output>>

\* lines 149-158: open(O_WRONLY | O_CREAT | O_DIRECT | O_TRUNC)
WriteOpen ==
    /\ pc = "write"
    /\ IF mode = "write" \/ mode = "readwrite"
       THEN \/ /\ WriteOpenFailed
               /\ UNCHANGED <<file, written_by>>
            \/ /\ fd' = 3
               /\ res' = Acquire(res, "wfd")
               /\ file' = [exists |-> TRUE, data |-> <<>>]
               /\ written_by' = NoWrite
               /\ pc' = "w_loop"
               /\ UNCHANGED <<exit_status, err, chunk_buf>>
       ELSE /\ pc' = "read"
            /\ UNCHANGED <<exit_status, err, chunk_buf, fd, res, file, written_by>>
    /\ UNCHANGED <<run, args, pat, read_buf, chunk, wlocals, rlocals, shorts, output>>

\* variant: the loop test is total_written <= size
WriteLoop_le ==
    /\ pc = "w_loop"
    /\ IF total_written <= size
       THEN /\ chunk' = ChunkLen(total_written, size)
            /\ pc' = "w_io"
       ELSE /\ pc' = "w_done"
            /\ chunk' = chunk
    /\ UNCHANGED <<run, args, exit_status, err, pat, chunk_buf, read_buf, fd,
                   res, wlocals, rlocals, file, shorts, written_by, output>>

\* lines 160-163: the loop test and the chunk length
WriteLoop ==
    /\ pc = "w_loop"
    /\ IF total_written < size
       THEN /\ chunk' = ChunkLen(total_written, size)
            /\ pc' = "w_io"
       ELSE /\ pc' = "w_done"
            /\ chunk' = chunk
    /\ UNCHANGED <<run, args, exit_status, err, pat, chunk_buf, read_buf, fd,
                   res, wlocals, rlocals, file, shorts, written_by, output>>

\* lines 164-171: pwrite(fd, chunk_buf, chunk, total_written), the cursor
\* and print_progress("WRITE", total_written, size)
WriteIO ==
    /\ pc = "w_io"
    /\ \/ /\ WriteFailed
          /\ UNCHANGED <<total_written, file, shorts, progress>>
       \/ \E n \in PwriteResults(chunk) :
          /\ written' = n
          /\ file' = [file EXCEPT !.data =
                         FileWrite(@, total_written, SubSeq(chunk_buf, 1, n))]
          /\ total_written' = total_written + n
          /\ shorts' = IF 0 < n /\ n < chunk THEN shorts + 1 ELSE shorts
          /\ progress' = [op |-> "WRITE", done |-> total_written + n]
          /\ pc' = "w_loop"
          /\ UNCHANGED <<exit_status, err, res, chunk_buf>>
    /\ UNCHANGED <<run, args, pat, read_buf, fd, chunk, rlocals, written_by,
                   compared>>

\* variant: the write phase ends without close(fd)
WriteDone_noclose ==
    /\ pc = "w_done"
    /\ res' = res
    /\ written_by' = [done |-> TRUE, size |-> size, hex_val |-> pat.pattern64,
                      short |-> shorts > 0]
    /\ pc' = "read"
    /\ UNCHANGED <<run, args, exit_status, err, pat, chunk_buf, read_buf, fd,
                   chunk, wlocals, rlocals, file, shorts, output>>

\* lines 174-178: throughput report, close(fd)
WriteDone ==
    /\ pc = "w_done"
    /\ res' = Release(res, "wfd")
    /\ written_by' = [done |-> TRUE, size |-> size, hex_val |-> pat.pattern64,
                      short |-> shorts > 0]
    /\ pc' = "read"
    /\ UNCHANGED <<run, args, exit_status, err, pat, chunk_buf, read_buf, fd,
                   chunk, wlocals, rlocals, file, shorts, output>>

(***************************************************************************)
(* main, lines 181-251: the read and verify phase                          *)
(***************************************************************************)
\* lines 186-190: posix_memalign failed
ReadAllocFailed ==
    /\ err' = "posix_memalign (read)"
    /\ res' = Release(res, "chunk_buf")
    /\ chunk_buf' = <<>>
    /\ Exit(1)

\* variant: the failed open frees chunk_buf and forgets read_buf
ReadOpenFailed_leak ==
    /\ fd' = -1
    /\ err' = "open (read)"
    /\ res' = Release(res, "chunk_buf")
    /\ chunk_buf' = <<>>
    /\ read_buf' = read_buf
    /\ Exit(1)

\* lines 193-197: open failed
ReadOpenFailed ==
    /\ fd' = -1
    /\ err' = "open (read)"
    /\ res' = Release(Release(res, "chunk_buf"), "read_buf")
    /\ chunk_buf' = <<>>
    /\ read_buf' = <<>>
    /\ Exit(1)

\* lines 207-211: pread reported an error
ReadFailed ==
    /\ bytes_read' = -1
    /\ err' = "pread"
    /\ res' = Release(Release(Release(res, "rfd"), "chunk_buf"), "read_buf")
    /\ chunk_buf' = <<>>
    /\ read_buf' = <<>>
    /\ Exit(1)

\* lines 182-190: the read buffer
ReadAlloc ==
    /\ pc = "read"
    /\ IF mode = "read" \/ mode = "readwrite"
       THEN \/ /\ ReadAllocFailed
               /\ UNCHANGED read_buf
            \/ /\ read_buf' = [k \in 1..CHUNK_SIZE |-> Indeterminate]
               /\ res' = Acquire(res, "read_buf")
               /\ pc' = "r_open"
               /\ UNCHANGED <<exit_status, err, chunk_buf>>
       ELSE /\ pc' = "finish"
            /\ UNCHANGED <<exit_status, err, chunk_buf, read_buf, res>>
    /\ UNCHANGED <<run, args, pat, fd, chunk, wlocals, rlocals, file, shorts,
                   written_by, output>>

\* lines 192-201: open(O_RDONLY | O_DIRECT); it cannot succeed on a file
\* that does not exist
ReadOpen ==
    /\ pc = "r_open"
    /\ \/ ReadOpenFailed
       \/ /\ file.exists
          /\ fd' = 3
          /\ res' = Acquire(res, "rfd")
          /\ pc' = "r_loop"
          /\ UNCHANGED <<exit_status, err, chunk_buf, read_buf>>
    /\ UNCHANGED <<run, args, pat, chunk, wlocals, rlocals, file, shorts,
                   written_by, output>>

\* lines 203-205: the loop test and the chunk length
ReadLoop ==
    /\ pc = "r_loop"
    /\ IF total_read < size
       THEN /\ chunk' = ChunkLen(total_read, size)
            /\ pc' = "r_io"
       ELSE /\ pc' = "verify_done"
            /\ chunk' = chunk
    /\ UNCHANGED <<run, args, exit_status, err, pat, chunk_buf, read_buf, fd,
                   res, wlocals, rlocals, file, shorts, written_by, output>>

\* variant: the read loop makes no progress report before the verify loop
ReadIO_noreport ==
    /\ pc = "r_io"
    /\ \/ /\ ReadFailed
          /\ UNCHANGED <<total_read, shorts, progress>>
       \/ \E n \in PreadResults(file.data, total_read, chunk) :
          /\ bytes_read' = n
          /\ read_buf' = [k \in 1..Len(read_buf) |->
                             IF k <= n THEN file.data[total_read + k] ELSE read_buf[k]]
          /\ IF n = 0
             THEN /\ pc' = "verify_done"
                  /\ total_read' = total_read
                  /\ progress' = progress
             ELSE /\ pc' = "verify"
                  /\ total_read' = total_read + n
                  /\ progress' = progress
          /\ shorts' = IF 0 < n /\ n < Min(chunk, Len(file.data) - total_read)
                       THEN shorts + 1 ELSE shorts
          /\ UNCHANGED <<exit_status, err, res, chunk_buf>>
    /\ UNCHANGED <<run, args, pat, fd, chunk, wlocals, mismatch, file, written_by,
                   compared>>

\* variant: a pread of 0 bytes does not leave the loop, the loop asks again
ReadIO_retry ==
    /\ pc = "r_io"
    /\ \/ /\ ReadFailed
          /\ UNCHANGED <<total_read, shorts, progress>>
       \/ \E n \in PreadResults(file.data, total_read, chunk) :
          /\ bytes_read' = n
          /\ read_buf' = [k \in 1..Len(read_buf) |->
                             IF k <= n THEN file.data[total_read + k] ELSE read_buf[k]]
          /\ IF n = 0
             THEN /\ pc' = "r_loop"
                  /\ total_read' = total_read
                  /\ progress' = progress
             ELSE /\ pc' = "verify"
                  /\ total_read' = total_read + n
                  /\ progress' = [op |-> "READ", done |-> total_read + n]
          /\ shorts' = IF 0 < n /\ n < Min(chunk, Len(file.data) - total_read)
                       THEN shorts + 1 ELSE shorts
          /\ UNCHANGED <<exit_status, err, res, chunk_buf>>
    /\ UNCHANGED <<run, args, pat, fd, chunk, wlocals, mismatch, file, written_by,
                   compared>>

\* lines 206-215: pread(fd, read_buf, chunk, total_read), the EOF break, the
\* cursor and print_progress("READ ", total_read, size)
ReadIO ==
    /\ pc = "r_io"
    /\ \/ /\ ReadFailed
          /\ UNCHANGED <<total_read, shorts, progress>>
       \/ \E n \in PreadResults(file.data, total_read, chunk) :
          /\ bytes_read' = n
          /\ read_buf' = [k \in 1..Len(read_buf) |->
                             IF k <= n THEN file.data[total_read + k] ELSE read_buf[k]]
          /\ IF n = 0
             THEN /\ pc' = "verify_done"
                  /\ total_read' = total_read
                  /\ progress' = progress
             ELSE /\ pc' = "verify"
                  /\ total_read' = total_read + n
                  /\ progress' = [op |-> "READ", done |-> total_read + n]
          /\ shorts' = IF 0 < n /\ n < Min(chunk, Len(file.data) - total_read)
                       THEN shorts + 1 ELSE shorts
          /\ UNCHANGED <<exit_status, err, res, chunk_buf>>
    /\ UNCHANGED <<run, args, pat, fd, chunk, wlocals, mismatch, file, written_by,
                   compared>>

\* variant: the cap leaves the for loop only (break), the read loop goes on
Verify_break ==
    /\ pc = "verify"
    /\ LET expected == fill_buffer(chunk_buf, bytes_read, pat)
           v        == VerifyChunk(expected, read_buf, bytes_read, mismatch)
       IN  /\ chunk_buf' = expected
           /\ mismatch' = v.mismatch
           /\ compared' = compared + v.compared
           /\ pc' = "r_loop"
    /\ UNCHANGED <<run, args, exit_status, err, pat, read_buf, fd, res, chunk,
                   wlocals, total_read, bytes_read, file, shorts, written_by,
                   progress>>

\* lines 217-233: refill the expected bytes, compare, count mismatches
Verify ==
    /\ pc = "verify"
    /\ LET expected == fill_buffer(chunk_buf, bytes_read, pat)
           v        == VerifyChunk(expected, read_buf, bytes_read, mismatch)
       IN  /\ chunk_buf' = expected
           /\ mismatch' = v.mismatch
           /\ compared' = compared + v.compared
           /\ pc' = IF v.stop THEN "verify_done" ELSE "r_loop"
    /\ UNCHANGED <<run, args, exit_status, err, pat, read_buf, fd, res, chunk,
                   wlocals, total_read, bytes_read, file, shorts, written_by,
                   progress>>

\* lines 236-250: summary, close(fd), free(read_buf)
VerifyDone ==
    /\ pc = "verify_done"
    /\ res' = Release(Release(res, "rfd"), "read_buf")
    /\ read_buf' = <<>>
    /\ pc' = "finish"
    /\ UNCHANGED <<run, args, exit_status, err, pat, chunk_buf, fd, chunk,
                   wlocals, rlocals, file, shorts, written_by, output>>

\* variant: a failed verification makes the exit status EXIT_FAILURE
Finish_mismatch ==
    /\ pc = "finish"
    /\ res' = Release(res, "chunk_buf")
    /\ chunk_buf' = <<>>
    /\ Exit(IF mismatch > 0 THEN 1 ELSE 0)
    /\ UNCHANGED <<run, args, err, pat, read_buf, fd, chunk, wlocals, rlocals,
                   file, shorts, written_by, output>>

\* lines 253-254: free(chunk_buf); return EXIT_SUCCESS
Finish ==
    /\ pc = "finish"
    /\ res' = Release(res, "chunk_buf")
    /\ chunk_buf' = <<>>
    /\ Exit(0)
    /\ UNCHANGED <<run, args, err, pat, read_buf, fd, chunk, wlocals, rlocals,
                   file, shorts, written_by, output>>

(***************************************************************************)
(* The environment                                                         *)
(***************************************************************************)
\* the program is invoked again, on the file the previous run left, once
\* that run has exited with success (as in `snb_dit f n write p && snb_dit
\* f n read p`)
Restart ==
    /\ pc = "exit"
    /\ exit_status = 0
    /\ run < MaxRuns
    /\ run' = run + 1
    /\ \E inv \in Invocations :
        /\ argc' = inv.argc
        /\ size' = inv.size
        /\ mode' = inv.mode
        /\ hex_str' = inv.hex_str
    /\ pc' = "start"
    /\ exit_status' = -1
    /\ err' = "none"
    /\ pat' = NoPattern
    /\ chunk_buf' = <<>>
    /\ read_buf' = <<>>
    /\ fd' = -1
    /\ res' = [r \in Resources |-> "none"]
    /\ chunk' = 0
    /\ total_written' = 0
    /\ written' = 0
    /\ total_read' = 0
    /\ bytes_read' = 0
    /\ mismatch' = 0
    /\ shorts' = 0
    /\ progress' = NoProgress
    /\ compared' = 0
    /\ UNCHANGED <<file, written_by>>

Next ==
    \/ Startup
    \/ AllocChunk
    \/ WriteOpen
    \/ WriteLoop
    \/ WriteIO
    \/ WriteDone
    \/ ReadAlloc
    \/ ReadOpen
    \/ ReadLoop
    \/ ReadIO
    \/ Verify
    \/ VerifyDone
    \/ Finish
    \/ Restart

Spec == Init /\ [][Next]_vars

\* The program is the only thread of control and every call returns: a
\* step that can be taken is eventually taken.
FairSpec == Spec /\ WF_vars(Next)

(***************************************************************************)
(* fill_buffer on its own: every length from 0 to MaxFill, in a buffer of  *)
(* that length or longer, with every good pattern                          *)
(***************************************************************************)
MaxFill == 33

\* how much longer than size the buffer may be
FillSlack == {0, 2}

FillInit ==
    /\ run = 1
    /\ argc = 5
    /\ mode = "write"
    /\ size \in 0..MaxFill
    /\ hex_str \in GoodPatterns
    /\ pat = MakePattern(parse_hex(hex_str).value)
    /\ \E slack \in FillSlack : chunk_buf = [k \in 1..(size + slack) |-> Indeterminate]
    /\ pc = "fill_buffer"
    /\ exit_status = -1
    /\ err = "none"
    /\ read_buf = <<>>
    /\ fd = -1
    /\ res = [r \in Resources |-> IF r = "chunk_buf" THEN "live" ELSE "none"]
    /\ chunk = 0
    /\ total_written = 0
    /\ written = 0
    /\ total_read = 0
    /\ bytes_read = 0
    /\ mismatch = 0
    /\ shorts = 0
    /\ progress = NoProgress
    /\ compared = 0
    /\ file = [exists |-> FALSE, data |-> <<>>]
    /\ written_by = NoWrite

\* fill_buffer(chunk_buf, size, &pat)
FillApply ==
    /\ pc = "fill_buffer"
    /\ chunk_buf' = fill_buffer(chunk_buf, size, pat)
    /\ pc' = "filled"
    /\ UNCHANGED <<run, args, exit_status, err, pat, read_buf, fd, res, chunk,
                   wlocals, rlocals, file, shorts, written_by, output>>

FillSpec == FillInit /\ [][FillApply]_vars

(***************************************************************************)
(* Properties                                                              *)
(***************************************************************************)
ReadModes == {"read", "readwrite"}

\* the run has ended with success after reading, with every pread full, a
\* file that a completed write phase with no short pwrite left
ReadBackDone ==
    /\ pc = "exit"
    /\ exit_status = 0
    /\ mode \in ReadModes
    /\ size > 0
    /\ shorts = 0
    /\ written_by.done
    /\ written_by.size > 0
    /\ ~written_by.short

\* ... and the write had this run's size and seed
RoundTripDone ==
    /\ ReadBackDone
    /\ written_by.size = size
    /\ written_by.hex_val = pat.pattern64

\* C1: a write of `size` bytes (a positive multiple of 512) followed by a
\* read of the same file with the same size and seed, all transfers full,
\* ends with no mismatch and with total_read = size.
C1_RoundTrip == RoundTripDone => (mismatch = 0 /\ total_read = size)

\* the bytes the verify loop expects for a chunk of n bytes
ExpectedChunk(n) == fill_buffer([k \in 1..n |-> Indeterminate], n, pat)

\* C2: at every pwrite, the bytes handed over for the logical offsets
\* [total_written, total_written + chunk) are the bytes the verify loop
\* expects at those offsets when the file is read back chunk by chunk.
C2_WriteMatchesVerifier ==
    pc = "w_io" =>
        LET whole  == ExpectedChunk(CHUNK_SIZE)
            last   == ExpectedChunk(size % CHUNK_SIZE)
            exp(o) == IF (o - (o % CHUNK_SIZE)) + CHUNK_SIZE <= size
                      THEN whole[(o % CHUNK_SIZE) + 1]
                      ELSE last[(o % CHUNK_SIZE) + 1]
        IN  \A i \in 0..(chunk - 1) : chunk_buf[i + 1] = exp(total_written + i)

\* the file was written with a pattern whose packed bytes differ from the
\* packed bytes of the pattern this run verifies against
ReadWithOtherPattern ==
    /\ ReadBackDone
    /\ Packed(MakePattern(written_by.hex_val)) # Packed(pat)

\* C3: a file written with pattern P (full transfers) and read back in full
\* with a pattern Q whose packed 15 bytes differ from P's ends the read run
\* with a mismatch count of at least 1 and at most 10.
C3_CorruptionDetected ==
    ReadWithOtherPattern => (mismatch > 0 /\ mismatch <= MISMATCH_CAP)

C3_Witness == ReadWithOtherPattern /\ size = written_by.size /\ mismatch > 0

\* C4: the running mismatch count, which is also the number of MISMATCH
\* lines of the run, is between 0 and 10 in every state.
C4_MismatchCap == mismatch >= 0 /\ mismatch <= MISMATCH_CAP

\* the cap was hit in a chunk in which more bytes differ than the cap
C4_Witness ==
    /\ pc = "verify_done"
    /\ mismatch = MISMATCH_CAP
    /\ Cardinality(Diffs(chunk_buf, read_buf, bytes_read)) > MISMATCH_CAP
    /\ total_read < size

\* C5: total_written and total_read are 0 until their loop starts, never
\* decrease within a run and never exceed size.
C5_Cursor ==
    /\ [](/\ 0 <= total_written /\ total_written <= size
          /\ 0 <= total_read /\ total_read <= size
          /\ (pc \in {"start", "alloc", "write"} => total_written = 0)
          /\ (pc \in {"start", "alloc", "write", "w_loop", "w_io", "w_done",
                      "read", "r_open"} => total_read = 0))
    /\ [][run' = run => (/\ total_written' >= total_written
                         /\ total_read' >= total_read)]_vars

\* both cursors have advanced, the read cursor by a short pread
C5_Witness ==
    /\ pc = "r_loop"
    /\ total_written = size
    /\ 0 < total_read
    /\ total_read < size
    /\ shorts > 0

\* C6: every run reaches a terminal state (exit), whatever the I/O calls
\* report, a pwrite that reports 0 bytes included.
C6_Terminates == (pc # "exit") ~> (pc = "exit")

\* C7: once an open, pwrite or pread has reported an error the run is at
\* exit with EXIT_FAILURE: it is at no call site again, and after a failure
\* in the write phase nothing of the read phase has happened.
C7_FailStop ==
    /\ (\/ written = -1
        \/ bytes_read = -1
        \/ err \in {"open (write)", "pwrite", "open (read)", "pread"})
       => (pc = "exit" /\ exit_status = 1)
    /\ (written = -1 \/ err \in {"open (write)", "pwrite"})
       => (/\ res["read_buf"] = "none"
           /\ res["rfd"] = "none"
           /\ total_read = 0
           /\ bytes_read = 0)

\* readwrite: pwrite failed after part of the file was written
C7_Witness ==
    /\ mode = "readwrite"
    /\ err = "pwrite"
    /\ total_written > 0
    /\ pc = "exit"

\* C8: no descriptor or buffer is released twice or used when not live, the
\* buffers have storage exactly while live, and at exit everything that was
\* acquired has been released.
C8_Resources ==
    /\ \A r \in Resources : res[r] # "bad"
    /\ (res["chunk_buf"] = "live") <=> (chunk_buf # <<>>)
    /\ (res["read_buf"] = "live") <=> (read_buf # <<>>)
    /\ pc \in {"w_loop", "w_io", "w_done"}
          => (res["wfd"] = "live" /\ res["chunk_buf"] = "live")
    /\ pc \in {"r_loop", "r_io", "verify", "verify_done"}
          => (/\ res["rfd"] = "live"
              /\ res["read_buf"] = "live"
              /\ res["chunk_buf"] = "live")
    /\ pc = "exit" => \A r \in Resources : res[r] \in {"none", "released"}

\* readwrite: pread failed, with both descriptors and both buffers acquired
C8_Witness ==
    /\ pc = "exit"
    /\ err = "pread"
    /\ \A r \in Resources : res[r] = "released"

\* C9: with a size that is not a multiple of 512 the run goes from start to
\* exit with EXIT_FAILURE only, acquires nothing, and no step into or
\* within such a run changes the file.
C9_UnalignedSize ==
    /\ [](size % ALIGNMENT # 0 =>
            /\ pc \in {"start", "exit"}
            /\ (pc = "exit" => exit_status = 1)
            /\ \A r \in Resources : res[r] = "none")
    /\ [][size' % ALIGNMENT # 0 => file' = file]_vars

\* readwrite with an unaligned size has exited, on a file that holds data
C9_Witness ==
    /\ size % ALIGNMENT # 0
    /\ mode = "readwrite"
    /\ pc = "exit"
    /\ file.exists
    /\ Len(file.data) > 0

\* an argument check failed, or an allocation or I/O call reported failure
HardError ==
    \/ argc # 5
    \/ ~parse_hex(hex_str).ok
    \/ size % ALIGNMENT # 0
    \/ written = -1
    \/ bytes_read = -1
    \/ err \in {"posix_memalign", "open (write)", "posix_memalign (read)",
                "open (read)"}

\* C10: the exit status is 0 exactly when no hard error occurred; the
\* mismatch count has no part in it.
C10_ExitStatus == pc = "exit" => ((exit_status = 0) <=> ~HardError)

\* a run that hit the mismatch cap has exited with status 0
C10_Witness ==
    /\ pc = "exit"
    /\ exit_status = 0
    /\ mismatch = MISMATCH_CAP

\* argv passes the checks of lines 96-116
ArgsValid ==
    /\ argc = 5
    /\ parse_hex(hex_str).ok
    /\ size % ALIGNMENT = 0

UnknownMode == mode \notin {"write", "read", "readwrite"}

IOSites == {"w_loop", "w_io", "w_done", "r_open", "r_loop", "r_io", "verify",
            "verify_done"}

\* the run has passed the checks of lines 96-116: its arguments are valid
PastChecks ==
    /\ pc # "start"
    /\ err \notin {"usage", "Invalid hex pattern", "Size must be a multiple"}

\* C11: with valid arguments and a mode that is none of write, read and
\* readwrite, the run opens, writes and reads nothing, no step of it changes
\* the file, and it exits with status 0 (the one other way out is a chunk
\* buffer that could not be allocated).
C11_UnknownModeNoOp ==
    /\ [](PastChecks /\ UnknownMode =>
            /\ pc \notin IOSites
            /\ fd = -1
            /\ res["wfd"] = "none" /\ res["rfd"] = "none" /\ res["read_buf"] = "none"
            /\ total_written = 0 /\ total_read = 0
            /\ progress = NoProgress
            /\ err \in {"none", "posix_memalign"}
            /\ (pc = "exit" => (exit_status = 0 <=> err = "none")))
    /\ [][(PastChecks /\ UnknownMode)' => file' = file]_vars

\* a run with mode "verify" has exited with success on a file with data
C11_Witness ==
    /\ ArgsValid
    /\ UnknownMode
    /\ pc = "exit"
    /\ exit_status = 0
    /\ file.exists
    /\ Len(file.data) > 0

\* the offset where the last whole 15-byte tile of a buffer of n bytes ends
LastTileEnd(n) == n - (n % PAT_SIZE)

\* every complete 15-byte tile of the first size bytes is the packed struct
TilesPacked ==
    \A i \in 0..(LastTileEnd(size) - 1) :
        chunk_buf[i + 1] = Packed(pat)[(i % PAT_SIZE) + 1]

\* every byte after the last whole tile, up to size, is pattern8
TailIsPattern8 ==
    \A i \in LastTileEnd(size)..(size - 1) : chunk_buf[i + 1] = pat.pattern8[1]

\* the first min(15, size) bytes are the first bytes of the packed struct
PrefixPacked ==
    \A i \in 0..(Min(PAT_SIZE, size) - 1) : chunk_buf[i + 1] = Packed(pat)[i + 1]

\* C12 as stated: after fill_buffer over len bytes the first min(15, len)
\* bytes are the first bytes of the packed pattern, also for len < 15, every
\* complete tile is the packed pattern, and every byte after the last whole
\* tile is the 8-bit view.
C12_FillAsStated ==
    pc = "filled" => (PrefixPacked /\ TilesPacked /\ TailIsPattern8)

\* C12, amended: after fill_buffer over len bytes every complete 15-byte
\* tile is the packed pattern (so the first 15 bytes are, when len >= 15),
\* every byte after the last whole tile is the 8-bit view (so every byte
\* is, when len < 15), and no byte at len or beyond is written.
C12_Fill ==
    pc = "filled" =>
        /\ TilesPacked
        /\ TailIsPattern8
        /\ (size >= PAT_SIZE => PrefixPacked)
        /\ \A k \in (size + 1)..Len(chunk_buf) : chunk_buf[k] = Indeterminate

\* a buffer shorter than the struct, filled with pattern8 where the packed
\* struct has another byte
C12_Witness ==
    /\ pc = "filled"
    /\ size > 2
    /\ size < PAT_SIZE
    /\ Len(chunk_buf) > size
    /\ chunk_buf[3] = pat.pattern8[1]
    /\ Packed(pat)[3] # pat.pattern8[1]

\* the diagnostics of a failed allocation, open, pwrite or pread
CallErrors == {"posix_memalign", "open (write)", "pwrite",
               "posix_memalign (read)", "open (read)", "pread"}

\* a readwrite run with a parsable pattern has ended, no call of it failed
\* and every pwrite and pread that moved bytes moved all it was asked for
ReadWriteEnded ==
    /\ pc = "exit"
    /\ mode = "readwrite"
    /\ argc = 5
    /\ parse_hex(hex_str).ok
    /\ err \notin CallErrors
    /\ shorts = 0

RoundTripClean ==
    /\ exit_status = 0
    /\ mismatch = 0
    /\ total_read = size
    /\ total_written = size

\* C13 as stated: a readwrite run of size CHUNK_SIZE, and one of size
\* CHUNK_SIZE + 1, both end with no mismatch and with bytes read = bytes
\* written = size.
C13_BoundaryAsStated ==
    (ReadWriteEnded /\ size \in {CHUNK_SIZE, CHUNK_SIZE + 1}) => RoundTripClean

\* C13, amended: a readwrite run of size CHUNK_SIZE, and one of size
\* CHUNK_SIZE + 512 (a second, short final chunk), end with no mismatch and
\* with bytes read = bytes written = size; size CHUNK_SIZE + 1 is rejected
\* by the size check before anything is allocated or transferred.
C13_Boundary ==
    /\ (ReadWriteEnded /\ size \in {CHUNK_SIZE, CHUNK_SIZE + ALIGNMENT})
          => RoundTripClean
    /\ (size = CHUNK_SIZE + 1 /\ argc = 5 /\ parse_hex(hex_str).ok)
          => /\ pc \in {"start", "exit"}
             /\ (pc = "exit" => exit_status = 1 /\ err = "Size must be a multiple")
             /\ total_written = 0 /\ total_read = 0
             /\ \A r \in Resources : res[r] = "none"

\* a readwrite run over one whole chunk and a short one has ended clean,
\* with a pattern whose packed bytes are not all the same
C13_Witness ==
    /\ ReadWriteEnded
    /\ size = CHUNK_SIZE + ALIGNMENT
    /\ RoundTripClean
    /\ Packed(pat)[3] # pat.pattern8[1]

\* the text of argv[4] after the optional 0x / 0X prefix
AfterPrefix(str) == IF HasHexPrefix(str, 1) THEN SubSeq(str, 3, Len(str)) ELSE str

AllHexDigits(t) == \A k \in 1..Len(t) : IsHexDigit(t[k])

\* the digits of t that are left when its leading zeros are dropped
Significant(t) == Len(t) - Cardinality({k \in 1..Len(t) : \A j \in 1..k : t[j] = "0"})

\* the value of a text of hex digits modulo 2^(8 * nbytes), as bytes, least
\* significant first: digit k from the right is nibble k
LowBytes(t, nbytes) ==
    [b \in 1..nbytes |->
        (IF 2 * b - 1 <= Len(t) THEN HexDigitVal(t[Len(t) + 2 - 2 * b]) ELSE 0)
        + 16 * (IF 2 * b <= Len(t) THEN HexDigitVal(t[Len(t) + 1 - 2 * b]) ELSE 0)]

\* what C14 asks of a pattern text: hex digits only, at most 16 significant
FitsU64(str) ==
    /\ AllHexDigits(AfterPrefix(str))
    /\ Significant(AfterPrefix(str)) <= 16

\* C14: once past the argument checks of a run with argc = 5, a pattern
\* text with a character that is no hex digit after the optional prefix, or
\* with more than 16 significant digits, has ended the run with "Invalid
\* hex pattern" and EXIT_FAILURE before anything was allocated or opened;
\* any other text has given the four views the low 8, 16, 32 and 64 bits of
\* its value.
C14_PatternParsing ==
    (argc = 5 /\ pc # "start") =>
        IF FitsU64(hex_str)
        THEN (pc # "exit" \/ exit_status = 0) =>
                /\ pat.pattern8  = LowBytes(AfterPrefix(hex_str), 1)
                /\ pat.pattern16 = LowBytes(AfterPrefix(hex_str), 2)
                /\ pat.pattern32 = LowBytes(AfterPrefix(hex_str), 4)
                /\ pat.pattern64 = LowBytes(AfterPrefix(hex_str), 8)
        ELSE /\ pc = "exit"
             /\ exit_status = 1
             /\ err = "Invalid hex pattern"
             /\ \A r \in Resources : res[r] = "none"
             /\ total_written = 0 /\ total_read = 0

\* the byte the verify loop expects at file offset k when every pread
\* returns all it was asked for: chunks start at multiples of CHUNK_SIZE
ExpectedAt(k) ==
    LET base == k - (k % CHUNK_SIZE)
    IN  ExpectedChunk(ChunkLen(base, size))[(k - base) + 1]

\* the verify loop has run over the chunk read last
ChunkVerified == pc \in {"r_loop", "verify_done"} /\ bytes_read > 0

\* this run reads, with at least one short pread, a file that a write phase
\* of the same size and seed left, written without a short pwrite
ShortReadBack ==
    /\ mode \in ReadModes
    /\ shorts > 0
    /\ written_by.done
    /\ ~written_by.short
    /\ written_by.size = size
    /\ written_by.hex_val = pat.pattern64

\* C15: the byte the verifier expects at a file offset is the same however
\* the preads split the range, also for a chunk that starts, after a short
\* pread, at an offset that is no multiple of the pattern size; so a file
\* written in whole chunks and read with short preads ends with no mismatch.
C15_ExpectedByOffset ==
    /\ ChunkVerified =>
          \A i \in 0..(bytes_read - 1) :
              chunk_buf[i + 1] = ExpectedAt((total_read - bytes_read) + i)
    /\ (ShortReadBack /\ pc = "exit" /\ exit_status = 0 /\ total_read = size)
          => mismatch = 0

CapReached == mismatch = MISMATCH_CAP

\* C16: the verify loop stops at the byte that makes the count 10; from then
\* on the run compares no byte and reads nothing, in this chunk or a later
\* one: it is at verify_done or beyond, whatever is left of size, and ends
\* with the descriptor and both buffers released and EXIT_SUCCESS.
C16_StopAtCap ==
    /\ [](CapReached =>
            /\ pc \in {"verify_done", "finish", "exit"}
            /\ err = "none"
            /\ (pc = "exit" =>
                   /\ exit_status = 0
                   /\ res["rfd"] = "released"
                   /\ res["read_buf"] = "released"
                   /\ res["chunk_buf"] = "released"))
    /\ [][(pc = "verify" /\ CapReached') =>
            LET c == compared' - compared
            IN  /\ c >= 1 /\ c <= bytes_read
                /\ chunk_buf'[c] # read_buf[c]
                /\ Cardinality({i \in 1..c : chunk_buf'[i] # read_buf[i]})
                      = MISMATCH_CAP - mismatch]_vars
    /\ [][(CapReached /\ run' = run) =>
            /\ mismatch' = mismatch
            /\ compared' = compared
            /\ total_read' = total_read
            /\ bytes_read' = bytes_read
            /\ progress' = progress]_vars

\* a run that hit the cap with bytes of the chunk and of the size left has
\* ended
C16_Witness ==
    /\ pc = "exit"
    /\ exit_status = 0
    /\ CapReached
    /\ compared < total_read
    /\ total_read < size

\* the file offset up to which the chunks read so far have been verified:
\* at the verify step the chunk read last has not been
VerifiedUpTo == IF pc = "verify" THEN total_read - bytes_read ELSE total_read

\* C17: for each chunk read the order is refill, verify, report progress:
\* no progress report of the read phase covers bytes of a chunk that has not
\* been verified yet.
C17_ProgressAfterVerify ==
    (mode \in ReadModes /\ progress.op = "READ") => progress.done <= VerifiedUpTo

\* C17, amended: for each chunk read the order is report progress, refill,
\* verify: while a chunk waits for the verify loop the progress report up
\* to its last byte has been made already, and the verify step refills the
\* expected buffer for bytes_read bytes, compares, and reports nothing.
C17_ProgressBeforeVerify ==
    /\ []((pc = "verify" \/ ChunkVerified) =>
            /\ bytes_read > 0
            /\ progress = [op |-> "READ", done |-> total_read])
    /\ [][pc = "verify" =>
            /\ SubSeq(chunk_buf', 1, bytes_read) = ExpectedChunk(bytes_read)
            /\ compared' > compared
            /\ progress' = progress]_vars

\* the second chunk of a run has been reported and not yet verified
C17_Witness ==
    /\ pc = "verify"
    /\ bytes_read > 0
    /\ total_read > bytes_read
    /\ progress = [op |-> "READ", done |-> total_read]
    /\ compared = total_read - bytes_read

\* the read loop was left because pread returned 0
AtEOF ==
    /\ pc \in {"verify_done", "finish", "exit"}
    /\ res["rfd"] # "none"
    /\ bytes_read = 0
    /\ total_read < size

\* C18: a pread that returns 0 is the end of the file and no error: the
\* step leaves the loop for verify_done with nothing else changed, no
\* pread or comparison follows, the run ends with EXIT_SUCCESS and
\* total_read < size, and exactly the total_read bytes read were compared.
C18_EndOfFile ==
    /\ [][(pc = "r_io" /\ bytes_read' = 0) =>
            /\ pc' = "verify_done"
            /\ err' = "none"
            /\ UNCHANGED <<total_read, mismatch, compared, progress, res>>]_vars
    /\ [](AtEOF =>
            /\ err = "none"
            /\ (pc = "exit" => exit_status = 0)
            /\ compared = total_read
            /\ mismatch <= compared)
    /\ [][(AtEOF /\ run' = run) =>
            /\ AtEOF'
            /\ UNCHANGED <<total_read, bytes_read, mismatch, compared, progress>>]_vars

\* a read of more bytes than the file holds has ended with success
C18_Witness ==
    /\ AtEOF
    /\ pc = "exit"
    /\ exit_status = 0
    /\ total_read > 0
    /\ total_read = Len(file.data)

\* C19: with size 0 and otherwise valid arguments the run passes the size
\* check, is never at a pwrite, pread or verify step, makes no progress
\* report (so print_progress never gets total = 0), transfers and compares
\* nothing, and exits with status 0; the only other exits are a failed
\* allocation or open.
C19_ZeroSize ==
    (size = 0 /\ argc = 5 /\ parse_hex(hex_str).ok) =>
        /\ pc \notin {"w_io", "r_io", "verify"}
        /\ progress = NoProgress
        /\ total_written = 0 /\ written = 0
        /\ total_read = 0 /\ bytes_read = 0
        /\ mismatch = 0 /\ compared = 0
        /\ err \in {"none", "posix_memalign", "open (write)",
                    "posix_memalign (read)", "open (read)"}
        /\ (pc = "exit" => (exit_status = 0 <=> err = "none"))

\* a readwrite run of size 0 went through both phases and has ended
C19_Witness ==
    /\ size = 0
    /\ mode = "readwrite"
    /\ pc = "exit"
    /\ exit_status = 0
    /\ \A r \in Resources : res[r] = "released"
    /\ file.exists
    /\ file.data = <<>>

ReadPhase == {"r_open", "r_loop", "r_io", "verify", "verify_done"}

\* C20: at most one descriptor is open at any time; in readwrite mode the
\* read phase is entered, and its file opened, only with total_written =
\* size and the write descriptor closed; and at a pwrite call nothing of
\* the read phase has happened yet in the run.
C20_PhaseOrder ==
    /\ ~(res["wfd"] = "live" /\ res["rfd"] = "live")
    /\ (mode = "readwrite" /\ (pc \in ReadPhase \/ res["rfd"] # "none"))
          => (total_written = size /\ res["wfd"] = "released")
    /\ pc \in {"w_loop", "w_io", "w_done"}
          => /\ res["rfd"] = "none"
             /\ res["read_buf"] = "none"
             /\ total_read = 0 /\ bytes_read = 0
             /\ progress.op # "READ"

\* readwrite: the read phase is at a pread after a write of two chunks
C20_Witness ==
    /\ mode = "readwrite"
    /\ pc = "r_io"
    /\ res["wfd"] = "released"
    /\ res["rfd"] = "live"
    /\ size > CHUNK_SIZE
    /\ total_written = size
    /\ progress = [op |-> "WRITE", done |-> size]

====
